---------------------------- MODULE Spec2Model ----------------------------
(***************************************************************************)
(* The lexicon store of the dictionary application: the server actions of  *)
(* src/lib/actions.ts (addWord, addDefinition, addExample, addMention,     *)
(* Report, reportElement) over the sharded word store behind getDB().      *)
(*                                                                         *)
(* A word text is a sequence of characters, so that toLowerCase and        *)
(* slice(0, 2) are computed; every other form field is a string whose      *)
(* length the schema checks.  The shard primitives (get, getWhere,         *)
(* getIndexOf, add, update, updateWhere) live in @/lib/db, which is not    *)
(* among the sources: they follow section 4.1 of the specification.        *)
(***************************************************************************)
EXTENDS Integers, Sequences, FiniteSets, TLC

VARIABLES
  store,     \* shard key -> the shard's ordered sequence of Words
  pre,       \* the store as it was when the last handler was called
  last,      \* the last handler call: its name, form data, returned State, shard calls
  ncalls,    \* how many handler calls have returned
  inflight   \* concurrent requests: each handler's position around its await

vars == <<store, pre, last, ncalls, inflight>>

---------------------------------------------------------------------------
(* Bounds of the model. *)

MaxCalls == 4
MaxFaultyCalls == 3
NProcs == 2

---------------------------------------------------------------------------
(* Strings. *)

Min(S) == CHOOSE m \in S : \A n \in S : m <= n

LowerChar(c) ==
  CASE c = "R" -> "r"
    [] c = "U" -> "u"
    [] c = "N" -> "n"
    [] OTHER -> c

toLowerCase(s) == [i \in 1..Len(s) |-> LowerChar(s[i])]

\* s.slice(0, 2)
sliceShardKey(s) == SubSeq(s, 1, IF Len(s) < 2 THEN Len(s) ELSE 2)

\* z.string().min(lo).max(hi)
zString(s, lo, hi) == Len(s) >= lo /\ Len(s) <= hi

\* z.string().startsWith('https://'): a hyperlink is <<scheme, rest>>
zStartsWithHttps(h) == h[1] = "https://"

---------------------------------------------------------------------------
(* Inputs. *)

WordTexts ==
  { <<"R", "u", "n">>, <<"r", "u", "n">>, <<"R", "U", "N">>,
    <<"r", "u", "m">>, <<"t", "e">> }
ShortWordText == <<"x">>

DefContents == { "to move fast on foot" }
DefReferences == { "oxford dictionary", "merriam webster" }
ExampleTexts == { "he went for a run" }
ExampleReferences == { "" }
MentionTitles == { "running, the article" }
MentionHyperlinks == { <<"https://", "r.example">> }
Sessions == { [user |-> "alice"], [user |-> ""] }

\* the forms a caller submits: every well-formed one, and one ill-formed per field
AddDefinitionForms ==
  [word_text : WordTexts, def_content : DefContents, def_reference : DefReferences]
  \cup [word_text : {ShortWordText, <<"r", "u", "n">>},
        def_content : {"short"}, def_reference : {"oxford dictionary", "me"}]
AddExampleForms ==
  [word_text : WordTexts, example_text : ExampleTexts,
   example_reference : ExampleReferences]
  \cup [word_text : {ShortWordText, <<"r", "u", "n">>}, example_text : {"short"},
        example_reference : ExampleReferences]
AddMentionForms ==
  [word_text : WordTexts, mention_title : MentionTitles,
   mention_hyperlink : MentionHyperlinks]
  \cup [word_text : {ShortWordText, <<"r", "u", "n">>}, mention_title : {"short"},
        mention_hyperlink : {<<"http://", "r.example">>}]
\* element_id is what the caller means to report; the handler's schema picks only
\* word_text and report_element
ReportForms ==
  [word_text : WordTexts, report_element : {"word", "bogus"},
   element_id : {""}, session : {[user |-> "alice"]}]
  \cup [word_text : WordTexts, report_element : {"definition"},
        element_id : {"oxford dictionary", "no such element"},
        session : {[user |-> "alice"]}]
  \cup [word_text : WordTexts, report_element : {"example", "mention"},
        element_id : {"no such element"}, session : {[user |-> "alice"]}]
  \cup [word_text : {ShortWordText}, report_element : {"word"},
        element_id : {""}, session : Sessions]
  \cup [word_text : {<<"r", "u", "n">>}, report_element : {"word", "definition", "bogus"},
        element_id : {"oxford dictionary"}, session : {[user |-> ""]}]

ShardKeys ==
  { sliceShardKey(t) : t \in WordTexts \cup { toLowerCase(u) : u \in WordTexts } }

---------------------------------------------------------------------------
(* The State a handler returns. *)

FormError == [type |-> "error", text |-> <<"Error submitting the form!">>]
WentWrong == [type |-> "error", text |-> <<"Something went wrong!">>]
Call(fn, key, index) == [fn |-> fn, key |-> key, index |-> index]

---------------------------------------------------------------------------
(* The shard primitives of @/lib/db. *)

\* what a lookup yields when nothing matches: every field reads as absent
NoWord ==
  [text |-> <<>>, definitions |-> <<>>, examples |-> <<>>, mentions |-> <<>>,
   V |-> 0, NV |-> 0]

\* getDB().get(key): the shard of a key, empty until something is added
get(db, key) == IF key \in DOMAIN db THEN db[key] ELSE <<>>

\* the Words of a shard, for predicates and update functions to range over
Words(sf) == { sf[i] : i \in 1..Len(sf) }

\* a predicate is the set of Words it accepts; the scan is in insertion order
Matches(sf, P) == { i \in 1..Len(sf) : sf[i] \in P }

getWhere(sf, P) ==
  IF Matches(sf, P) = {} THEN NoWord ELSE sf[Min(Matches(sf, P))]

\* getIndexOf(predicate)[0]: the first matching position, 0 when there is none
getIndexOf0(sf, P) ==
  IF Matches(sf, P) = {} THEN 0 ELSE Min(Matches(sf, P))

getAt(sf, index) == IF index \in 1..Len(sf) THEN sf[index] ELSE NoWord

add(sf, word) == Append(sf, word)

\* a patch merged over the current record
merge(prev, patch) ==
  [f \in DOMAIN prev |-> IF f \in DOMAIN patch THEN patch[f] ELSE prev[f]]

\* update(index, fn): IndexOutOfRange when the index is invalid
update(sf, index, fn) ==
  IF index \in 1..Len(sf)
    THEN [threw |-> FALSE, sf |-> [sf EXCEPT ![index] = merge(@, fn[@])]]
    ELSE [threw |-> TRUE, sf |-> sf]

\* updateWhere(predicate, fn): the first match, nothing when there is none
updateWhere(sf, P, fn) ==
  IF Matches(sf, P) = {} THEN sf
  ELSE [sf EXCEPT ![Min(Matches(sf, P))] = merge(@, fn[@])]

put(db, key, sf) == [k \in DOMAIN db |-> IF k = key THEN sf ELSE db[k]]

---------------------------------------------------------------------------
(* addWord *)

addDefinitionSchema(fd) ==
  /\ zString(fd.word_text, 2, 50)
  /\ zString(fd.def_content, 10, 255)
  /\ zString(fd.def_reference, 10, 45)

\* a creator's approval left out
newWordUnapproved(word_text, def_content, def_reference) ==
  [text |-> toLowerCase(word_text),
   definitions |-> <<[text |-> def_content, reference |-> def_reference,
                      V |-> 0, NV |-> 0]>>,
   examples |-> <<[text |-> "", reference |-> "", V |-> 1, NV |-> 0]>>,
   mentions |-> <<[title |-> "", hyperlink |-> <<>>, V |-> 1, NV |-> 0]>>,
   V |-> 1,
   NV |-> 0]

newWord(word_text, def_content, def_reference) ==
  [text |-> toLowerCase(word_text),
   definitions |-> <<[text |-> def_content, reference |-> def_reference,
                      V |-> 1, NV |-> 0]>>,
   examples |-> <<[text |-> "", reference |-> "", V |-> 1, NV |-> 0]>>,
   mentions |-> <<[title |-> "", hyperlink |-> <<>>, V |-> 1, NV |-> 0]>>,
   V |-> 1,
   NV |-> 0]

\* the key taken from the text as typed
addWordShardKeyRaw(word_text) == sliceShardKey(word_text)

\* newWord.text.slice(0, 2)
addWordShardKey(word_text) == sliceShardKey(toLowerCase(word_text))

\* a check that looks at the shard's first word only
addWordExistsFirstOnly(sf, nw) == sf # <<>> /\ sf[1].text = nw.text

\* a check that never finds the word
addWordExistsNever(sf, nw) == FALSE

addWordExists(sf, nw) ==
  LET P == { word \in Words(sf) : word.text = nw.text }
  IN  getWhere(sf, P).text # <<>>

\* the word added before the duplicate is refused
addWordTryAddsAnyway(db, fd) ==
  LET nw == newWord(fd.word_text, fd.def_content, fd.def_reference)
      key == addWordShardKey(fd.word_text)
      sf == get(db, key)
  IN  [db |-> put(db, key, add(sf, nw)),
       state |-> IF addWordExists(sf, nw)
                   THEN [type |-> "warning", text |-> <<nw.text, " already exists.">>]
                   ELSE [type |-> "success",
                         text |-> <<nw.text, " has been successfully added.">>],
       calls |-> <<Call("db.get", key, 0), Call("getWhere", key, 0),
                   Call("add", key, 0)>>]

\* the try block: everything after "await getDB()" runs without yielding
addWordTry(db, fd) ==
  LET nw == newWord(fd.word_text, fd.def_content, fd.def_reference)
      key == addWordShardKey(fd.word_text)
      sf == get(db, key)
  IN  IF addWordExists(sf, nw)
        THEN [db |-> db,
              state |-> [type |-> "warning", text |-> <<nw.text, " already exists.">>],
              calls |-> <<Call("db.get", key, 0), Call("getWhere", key, 0)>>]
        ELSE [db |-> put(db, key, add(sf, nw)),
              state |-> [type |-> "success",
                         text |-> <<nw.text, " has been successfully added.">>],
              calls |-> <<Call("db.get", key, 0), Call("getWhere", key, 0),
                          Call("add", key, 0)>>]

addWord(db, fd) ==
  IF ~addDefinitionSchema(fd)
    THEN [db |-> db, state |-> FormError, calls |-> <<>>]
    ELSE addWordTry(db, fd)

---------------------------------------------------------------------------
(* addDefinition, addExample, addMention *)

Success(text) == [type |-> "success", text |-> <<text>>]

\* the shard of the three handlers and of Report: word_text.slice(0, 2), as typed
rawShardKey(word_text) == sliceShardKey(word_text)

\* (word) => word.text == valFields.data.word_text
FirstWithText(sf, word_text) ==
  LET P == { word \in Words(sf) : word.text = word_text }
  IN  getIndexOf0(sf, P)

\* a check that looks at the shard's first word only
referenceExistsFirstOnly(sf, reference) ==
  /\ sf # <<>>
  /\ \E j \in 1..Len(sf[1].definitions) : sf[1].definitions[j].reference = reference

\* a check that never finds the reference
referenceExistsNever(sf, reference) == FALSE

\* a definition from the same reference, in any word of the shard
referenceExists(sf, reference) ==
  LET P == { word \in Words(sf) :
               \E j \in 1..Len(word.definitions) :
                 word.definitions[j].reference = reference }
  IN  getWhere(sf, P).text # <<>>

\* the new definition put first
addDefinitionTryPrepends(db, fd) ==
  LET newDefinition == [text |-> fd.def_content, reference |-> fd.def_reference,
                        V |-> 1, NV |-> 0]
      key == rawShardKey(fd.word_text)
      sf == get(db, key)
      P == { word \in Words(sf) : word.text = fd.word_text }
      fn == [prev \in Words(sf) |-> [definitions |-> <<newDefinition>> \o prev.definitions]]
  IN  IF referenceExists(sf, newDefinition.reference)
        THEN [db |-> db,
              state |-> [type |-> "error",
                         text |-> <<"Failed: there is already a definition from the same reference included!">>],
              calls |-> <<Call("db.get", key, 0), Call("getWhere", key, 0)>>]
        ELSE [db |-> put(db, key, updateWhere(sf, P, fn)),
              state |-> Success("Your definition has been added successfully. Refresh the page and check it out."),
              calls |-> <<Call("db.get", key, 0), Call("getWhere", key, 0),
                          Call("updateWhere", key, FirstWithText(sf, fd.word_text))>>]

addDefinitionTry(db, fd) ==
  LET newDefinition == [text |-> fd.def_content, reference |-> fd.def_reference,
                        V |-> 1, NV |-> 0]
      key == rawShardKey(fd.word_text)
      sf == get(db, key)
      P == { word \in Words(sf) : word.text = fd.word_text }
      fn == [prev \in Words(sf) |-> [definitions |-> Append(prev.definitions, newDefinition)]]
  IN  IF referenceExists(sf, newDefinition.reference)
        THEN [db |-> db,
              state |-> [type |-> "error",
                         text |-> <<"Failed: there is already a definition from the same reference included!">>],
              calls |-> <<Call("db.get", key, 0), Call("getWhere", key, 0)>>]
        ELSE [db |-> put(db, key, updateWhere(sf, P, fn)),
              state |-> Success("Your definition has been added successfully. Refresh the page and check it out."),
              calls |-> <<Call("db.get", key, 0), Call("getWhere", key, 0),
                          Call("updateWhere", key, FirstWithText(sf, fd.word_text))>>]

addDefinition(db, fd) ==
  IF ~addDefinitionSchema(fd)
    THEN [db |-> db, state |-> FormError, calls |-> <<>>]
    ELSE addDefinitionTry(db, fd)

addExampleSchema(fd) ==
  /\ zString(fd.word_text, 2, 50)
  /\ zString(fd.example_text, 10, 145)
  /\ zString(fd.example_reference, 0, 45)

\* a missing word reported to the caller
addExampleTryReportsMissing(db, fd) ==
  LET newExample == [text |-> fd.example_text, reference |-> fd.example_reference,
                     V |-> 1, NV |-> 0]
      key == rawShardKey(fd.word_text)
      sf == get(db, key)
      P == { word \in Words(sf) : word.text = fd.word_text }
      fn == [prev \in Words(sf) |-> [examples |-> Append(prev.examples, newExample)]]
  IN  [db |-> put(db, key, updateWhere(sf, P, fn)),
       state |-> IF Matches(sf, P) = {}
                   THEN [type |-> "error", text |-> <<"Cannot find the word ", <<>>>>]
                   ELSE Success("The example has been added successfully. Refresh the page and check it out."),
       calls |-> <<Call("db.get", key, 0),
                   Call("updateWhere", key, FirstWithText(sf, fd.word_text))>>]

addExampleTry(db, fd) ==
  LET newExample == [text |-> fd.example_text, reference |-> fd.example_reference,
                     V |-> 1, NV |-> 0]
      key == rawShardKey(fd.word_text)
      sf == get(db, key)
      P == { word \in Words(sf) : word.text = fd.word_text }
      fn == [prev \in Words(sf) |-> [examples |-> Append(prev.examples, newExample)]]
  IN  [db |-> put(db, key, updateWhere(sf, P, fn)),
       state |-> Success("The example has been added successfully. Refresh the page and check it out."),
       calls |-> <<Call("db.get", key, 0),
                   Call("updateWhere", key, FirstWithText(sf, fd.word_text))>>]

addExample(db, fd) ==
  IF ~addExampleSchema(fd)
    THEN [db |-> db, state |-> FormError, calls |-> <<>>]
    ELSE addExampleTry(db, fd)

addMentionSchema(fd) ==
  /\ zString(fd.word_text, 2, 50)
  /\ zString(fd.mention_title, 10, 45)
  /\ zStartsWithHttps(fd.mention_hyperlink)

\* the mentions replaced by the new one
addMentionTryReplaces(db, fd) ==
  LET newMention == [title |-> fd.mention_title, hyperlink |-> fd.mention_hyperlink,
                     V |-> 1, NV |-> 0]
      key == rawShardKey(fd.word_text)
      sf == get(db, key)
      P == { word \in Words(sf) : word.text = fd.word_text }
      fn == [prev \in Words(sf) |-> [mentions |-> <<newMention>>]]
  IN  [db |-> put(db, key, updateWhere(sf, P, fn)),
       state |-> Success("The data has been added successfully. Refresh the page and check it out."),
       calls |-> <<Call("db.get", key, 0),
                   Call("updateWhere", key, FirstWithText(sf, fd.word_text))>>]

addMentionTry(db, fd) ==
  LET newMention == [title |-> fd.mention_title, hyperlink |-> fd.mention_hyperlink,
                     V |-> 1, NV |-> 0]
      key == rawShardKey(fd.word_text)
      sf == get(db, key)
      P == { word \in Words(sf) : word.text = fd.word_text }
      fn == [prev \in Words(sf) |-> [mentions |-> Append(prev.mentions, newMention)]]
  IN  [db |-> put(db, key, updateWhere(sf, P, fn)),
       state |-> Success("The data has been added successfully. Refresh the page and check it out."),
       calls |-> <<Call("db.get", key, 0),
                   Call("updateWhere", key, FirstWithText(sf, fd.word_text))>>]

addMention(db, fd) ==
  IF ~addMentionSchema(fd)
    THEN [db |-> db, state |-> FormError, calls |-> <<>>]
    ELSE addMentionTry(db, fd)

---------------------------------------------------------------------------
(* Report, reportElement *)

reportSchema(fd) == zString(fd.word_text, 2, 50)

\* a check that lets everyone through
noSessionUserNever(session) == FALSE

\* !session?.user
noSessionUser(session) == session.user = ""

Unauthorized ==
  [type |-> "error", text |-> <<"You have to login in order to report items.">>]

\* a check that takes any lookup result for a word
wordMissingNever(word) == FALSE

\* !(word as Word).text
wordMissing(word) == word.text = <<>>

\* a penalty taken off
reportPenaltyOff(n) == n - 2

\* word.NV += 2
reportPenalty(n) == n + 2

\* a penalty booked on the approvals
reportElementOnApprovals(word, element_type) ==
  IF element_type = "word"
    THEN [threw |-> "", word |-> [word EXCEPT !.V = reportPenalty(@)]]
    ELSE [threw |-> "ReferenceError", word |-> word]

\* The helper reads element_id (definitions) and element (examples, mentions),
\* neither of which is in scope: evaluating either raises a ReferenceError.  With
\* no definitions the callback never runs, findIndex yields -1 and the update of
\* definitions[-1] raises a TypeError.  Only the "word" branch returns.
reportElement(word, element_type) ==
  IF element_type = "word"
    THEN [threw |-> "", word |-> [word EXCEPT !.NV = reportPenalty(@)]]
  ELSE IF element_type = "definition"
    THEN [threw |-> IF word.definitions = <<>> THEN "TypeError" ELSE "ReferenceError",
          word |-> word]
  ELSE [threw |-> "ReferenceError", word |-> word]

\* the element type checked before the word is looked up
ReportTryEnumFirst(db, fd) ==
  LET key == rawShardKey(fd.word_text)
      sf == get(db, key)
      index == FirstWithText(sf, fd.word_text)
      word == getAt(sf, index)
      looked == <<Call("db.get", key, 0), Call("getIndexOf", key, 0),
                  Call("get", key, index)>>
      reported == reportElement(word, fd.report_element)
      fn == [prev \in Words(sf) |-> reported.word]
      updated == update(sf, index, fn)
  IN  IF fd.report_element \notin {"word", "definition", "example", "mention"}
        THEN [db |-> db,
              state |-> [type |-> "error", text |-> <<"Invalid input!">>],
              calls |-> <<Call("db.get", key, 0)>>]
      ELSE IF wordMissing(word)
        THEN [db |-> db,
              state |-> [type |-> "error", text |-> <<"Cannot find the word ", word.text>>],
              calls |-> looked]
      ELSE IF reported.threw # "" \/ updated.threw
        THEN [db |-> db, state |-> WentWrong, calls |-> looked]
      ELSE [db |-> put(db, key, updated.sf),
            state |-> Success("Done. Thanks for reporting."),
            calls |-> Append(looked, Call("update", key, index))]

ReportTry(db, fd) ==
  LET key == rawShardKey(fd.word_text)
      sf == get(db, key)
      index == FirstWithText(sf, fd.word_text)
      word == getAt(sf, index)
      looked == <<Call("db.get", key, 0), Call("getIndexOf", key, 0),
                  Call("get", key, index)>>
      reported == reportElement(word, fd.report_element)
      fn == [prev \in Words(sf) |-> reported.word]
      updated == update(sf, index, fn)
  IN  IF wordMissing(word)
        THEN [db |-> db,
              state |-> [type |-> "error", text |-> <<"Cannot find the word ", word.text>>],
              calls |-> looked]
      ELSE IF fd.report_element \notin {"word", "definition", "example", "mention"}
        THEN [db |-> db,
              state |-> [type |-> "error", text |-> <<"Invalid input!">>],
              calls |-> looked]
      ELSE IF reported.threw # ""
        THEN [db |-> db, state |-> WentWrong, calls |-> looked]
      ELSE IF updated.threw
        THEN [db |-> db, state |-> WentWrong,
              calls |-> Append(looked, Call("update", key, index))]
      ELSE [db |-> put(db, key, updated.sf),
            state |-> Success("Done. Thanks for reporting."),
            calls |-> Append(looked, Call("update", key, index))]

Report(db, fd) ==
  IF noSessionUser(fd.session)
    THEN [db |-> db, state |-> Unauthorized, calls |-> <<>>]
  ELSE IF ~reportSchema(fd)
    THEN [db |-> db, state |-> FormError, calls |-> <<>>]
  ELSE ReportTry(db, fd)

---------------------------------------------------------------------------
(* Where the Words are. *)

\* the places <<shard key, index>> that hold a Word
StoredAt(db) == UNION { { <<k, i>> : i \in 1..Len(db[k]) } : k \in DOMAIN db }

WordAt(db, p) == db[p[1]][p[2]]

---------------------------------------------------------------------------
(* The sequential system: one handler call at a time. *)

Idle == [pc |-> "idle"]

Init ==
  /\ store = [k \in ShardKeys |-> <<>>]
  /\ pre = store
  /\ last = [op |-> "none", fd |-> <<>>, state |-> [type |-> "none", text |-> <<>>],
             calls |-> <<>>]
  /\ ncalls = 0
  /\ inflight = [p \in 1..NProcs |-> Idle]

Ran(op, fd, r) ==
  /\ ncalls < MaxCalls
  /\ ncalls' = ncalls + 1
  /\ store' = r.db
  /\ pre' = store
  /\ last' = [op |-> op, fd |-> fd, state |-> r.state, calls |-> r.calls]
  /\ UNCHANGED inflight

AddWord == \E fd \in AddDefinitionForms : Ran("addWord", fd, addWord(store, fd))

AddDefinition ==
  \E fd \in AddDefinitionForms : Ran("addDefinition", fd, addDefinition(store, fd))

AddExample == \E fd \in AddExampleForms : Ran("addExample", fd, addExample(store, fd))

AddMention == \E fd \in AddMentionForms : Ran("addMention", fd, addMention(store, fd))

DoReport == \E fd \in ReportForms : Ran("Report", fd, Report(store, fd))

Next == AddWord \/ AddDefinition \/ AddExample \/ AddMention \/ DoReport

Spec == Init /\ [][Next]_vars

---------------------------------------------------------------------------
(* The sequential system over a storage medium that can fail.  A shard call *)
(* that cannot read or persist throws and leaves the shard as it was; the   *)
(* handler's catch block turns the exception into its "Something went       *)
(* wrong!" State.                                                           *)

Faults == {"none", "read", "write"}

IsWrite(call) == call.fn \in {"add", "update", "updateWhere"}

\* where a fault can strike: the first shard call, or the write that ends the try block
FaultStrikes(r, fault) ==
  CASE fault = "read" -> r.calls # <<>>
    [] fault = "write" -> r.calls # <<>> /\ IsWrite(r.calls[Len(r.calls)])
    [] OTHER -> FALSE

\* an exception that leaves the handler uncaught
CaughtNot(db, r, fault) ==
  IF FaultStrikes(r, fault)
    THEN [db |-> db, state |-> [type |-> "thrown", text |-> <<"StorageFault">>],
          calls |-> r.calls]
    ELSE r

\* catch (err) { ...; return { message: { text: 'Something went wrong!', type: 'error' } } }
Caught(db, r, fault) ==
  IF ~FaultStrikes(r, fault) THEN r
  ELSE IF fault = "read"
    THEN [db |-> db, state |-> WentWrong, calls |-> <<r.calls[1]>>]
  ELSE [db |-> db, state |-> WentWrong, calls |-> r.calls]

\* the handler ran to its end, or a fault struck one of the shard calls it made
RanOver(op, fd, r) ==
  /\ ncalls < MaxFaultyCalls
  /\ \E fault \in { f \in Faults : f = "none" \/ FaultStrikes(r, f) } :
       Ran(op, fd, Caught(store, r, fault))

AddWordOver ==
  \E fd \in AddDefinitionForms :
    LET r == addWord(store, fd) IN RanOver("addWord", fd, r)

AddDefinitionOver ==
  \E fd \in AddDefinitionForms :
    LET r == addDefinition(store, fd) IN RanOver("addDefinition", fd, r)

AddExampleOver ==
  \E fd \in AddExampleForms :
    LET r == addExample(store, fd) IN RanOver("addExample", fd, r)

AddMentionOver ==
  \E fd \in AddMentionForms :
    LET r == addMention(store, fd) IN RanOver("addMention", fd, r)

ReportOver ==
  \E fd \in ReportForms :
    LET r == Report(store, fd) IN RanOver("Report", fd, r)

NextFault ==
  AddWordOver \/ AddDefinitionOver \/ AddExampleOver \/ AddMentionOver \/ ReportOver

SpecFault == Init /\ [][NextFault]_vars

---------------------------------------------------------------------------
(* The concurrent system: NProcs requests in flight.  A handler yields only *)
(* at its await; addWord's one await, "await getDB()", precedes the shard   *)
(* lookup, so its lookup, duplicate check and add run as one step.          *)

CallAddWord(p) ==
  /\ inflight[p].pc = "idle"
  /\ \E fd \in AddDefinitionForms :
       inflight' = [inflight EXCEPT ![p] =
         IF ~addDefinitionSchema(fd)
           THEN [pc |-> "done", op |-> "addWord", fd |-> fd, state |-> FormError]
           ELSE [pc |-> "awaitDB", op |-> "addWord", fd |-> fd,
                 state |-> [type |-> "none", text |-> <<>>]]]
  /\ UNCHANGED <<store, pre, last, ncalls>>

ResumeAddWord(p) ==
  /\ inflight[p].pc = "awaitDB"
  /\ inflight[p].op = "addWord"
  /\ LET r == addWordTry(store, inflight[p].fd)
     IN  /\ store' = r.db
         /\ inflight' = [inflight EXCEPT ![p].pc = "done", ![p].state = r.state]
  /\ UNCHANGED <<pre, last, ncalls>>

NextConc == \E p \in 1..NProcs : CallAddWord(p) \/ ResumeAddWord(p)

SpecConc == Init /\ [][NextConc]_vars

---------------------------------------------------------------------------
(* Report racing addDefinition.  Report yields at "await auth()" and at      *)
(* "await getDB()", addDefinition at "await getDB()"; each handler's shard  *)
(* reads and its write follow its last await and run as one step.            *)

RaceWordTexts == { <<"r", "u", "n">>, <<"r", "u", "m">> }

RaceReportForms ==
  [word_text : RaceWordTexts, report_element : {"word"},
   element_id : {""}, session : Sessions]
  \cup [word_text : {ShortWordText}, report_element : {"word"},
        element_id : {""}, session : {[user |-> "alice"]}]

RaceAddDefinitionForms ==
  [word_text : RaceWordTexts, def_content : DefContents, def_reference : DefReferences]
  \cup [word_text : {<<"r", "u", "n">>}, def_content : {"short"},
        def_reference : {"merriam webster"}]

\* the store after addWord("run", ..., "oxford dictionary") on the empty store
RaceSeededStore ==
  addWord([k \in ShardKeys |-> <<>>],
          [word_text |-> <<"r", "u", "n">>, def_content |-> "to move fast on foot",
           def_reference |-> "oxford dictionary"]).db

InitRace ==
  /\ store = RaceSeededStore
  /\ pre = store
  /\ last = [op |-> "none", fd |-> <<>>, state |-> [type |-> "none", text |-> <<>>],
             calls |-> <<>>]
  /\ ncalls = 0
  /\ inflight = [p \in 1..NProcs |-> Idle]

\* the requests submitted and not yet returned, other than p
InFlightWith(p) ==
  { q \in 1..NProcs \ {p} : inflight[q].pc \in {"awaitAuth", "awaitDB"} }

CallReport(p) ==
  /\ inflight[p].pc = "idle"
  /\ \E fd \in RaceReportForms :
       inflight' = [inflight EXCEPT ![p] =
         [pc |-> "awaitAuth", op |-> "Report", fd |-> fd,
          state |-> [type |-> "none", text |-> <<>>], met |-> {}]]
  /\ UNCHANGED <<store, pre, last, ncalls>>

ResumeReportAuth(p) ==
  /\ inflight[p].pc = "awaitAuth"
  /\ inflight' = [inflight EXCEPT ![p] =
       IF noSessionUser(inflight[p].fd.session)
         THEN [@ EXCEPT !.pc = "done", !.state = Unauthorized]
       ELSE IF ~reportSchema(inflight[p].fd)
         THEN [@ EXCEPT !.pc = "done", !.state = FormError]
       ELSE [@ EXCEPT !.pc = "awaitDB"]]
  /\ UNCHANGED <<store, pre, last, ncalls>>

\* the Word written back is the one read before any other request ran
ResumeReportStale(p) ==
  /\ inflight[p].pc = "awaitDB"
  /\ inflight[p].op = "Report"
  /\ LET r == ReportTry(RaceSeededStore, inflight[p].fd)
     IN  /\ store' = r.db
         /\ inflight' = [inflight EXCEPT ![p].pc = "done", ![p].state = r.state,
                                         ![p].met = InFlightWith(p)]
  /\ UNCHANGED <<pre, last, ncalls>>

ResumeReport(p) ==
  /\ inflight[p].pc = "awaitDB"
  /\ inflight[p].op = "Report"
  /\ LET r == ReportTry(store, inflight[p].fd)
     IN  /\ store' = r.db
         /\ inflight' = [inflight EXCEPT ![p].pc = "done", ![p].state = r.state,
                                         ![p].met = InFlightWith(p)]
  /\ UNCHANGED <<pre, last, ncalls>>

CallAddDefinition(p) ==
  /\ inflight[p].pc = "idle"
  /\ \E fd \in RaceAddDefinitionForms :
       inflight' = [inflight EXCEPT ![p] =
         IF ~addDefinitionSchema(fd)
           THEN [pc |-> "done", op |-> "addDefinition", fd |-> fd,
                 state |-> FormError, met |-> {}]
           ELSE [pc |-> "awaitDB", op |-> "addDefinition", fd |-> fd,
                 state |-> [type |-> "none", text |-> <<>>], met |-> {}]]
  /\ UNCHANGED <<store, pre, last, ncalls>>

ResumeAddDefinition(p) ==
  /\ inflight[p].pc = "awaitDB"
  /\ inflight[p].op = "addDefinition"
  /\ LET r == addDefinitionTry(store, inflight[p].fd)
     IN  /\ store' = r.db
         /\ inflight' = [inflight EXCEPT ![p].pc = "done", ![p].state = r.state,
                                         ![p].met = InFlightWith(p)]
  /\ UNCHANGED <<pre, last, ncalls>>

NextRace ==
  \E p \in 1..NProcs :
    \/ CallReport(p)
    \/ ResumeReportAuth(p)
    \/ ResumeReport(p)
    \/ CallAddDefinition(p)
    \/ ResumeAddDefinition(p)

SpecRace == InitRace /\ [][NextRace]_vars

---------------------------------------------------------------------------
(* Vocabulary of the properties. *)

\* the canonical form of a word text
Canon(text) ==
  [i \in 1..Len(text) |->
     CASE text[i] = "R" -> "r" [] text[i] = "U" -> "u" [] text[i] = "N" -> "n"
       [] OTHER -> text[i]]

\* the shard key of a canonical text: its first two characters
KeyOf(text) == SubSeq(text, 1, IF Len(text) < 2 THEN Len(text) ELSE 2)

\* findFirst(w => w.text == text) in the shard of text
Lookup(db, text) ==
  LET sf == get(db, KeyOf(text))
  IN  getWhere(sf, { w \in Words(sf) : w.text = text })

\* the first position in db's shard `key` whose Word has this text, 0 if none
IndexIn(db, key, text) ==
  LET hits == { i \in 1..Len(db[key]) : db[key][i].text = text }
  IN  IF hits = {} THEN 0 ELSE Min(hits)

Authenticated == last.fd.session.user # ""

\* the outcome classes of the error taxonomy, by the State a handler returns
Outcome(state) ==
  CASE state.type = "success" -> "Success"
    [] state.type = "warning" -> "DuplicateWord"
    [] state.text = <<"You have to login in order to report items.">> -> "Unauthorized"
    [] state.text = <<"Error submitting the form!">> -> "ValidationFailed"
    [] state.text = <<"Invalid input!">> -> "InvalidElementType"
    [] state.text = <<"Something went wrong!">> -> "StorageFault"
    [] state.text[1] = "Cannot find the word " -> "WordNotFound"
    [] state.text[1] = "Failed: there is already a definition from the same reference included!"
         -> "DuplicateReference"
    [] OTHER -> "None"

Placeholder == [V |-> 1, NV |-> 0]

---------------------------------------------------------------------------
(* C1 *)

AddWordSucceeded == last.op = "addWord" /\ last.state.type = "success"

SeededWord(w) ==
  /\ w.text = Canon(last.fd.word_text)
  /\ w.V = 1
  /\ w.NV = 0
  /\ w.definitions = <<[text |-> last.fd.def_content,
                        reference |-> last.fd.def_reference, V |-> 1, NV |-> 0]>>

\* C1 as amended: after a successful AddWord, looking the canonical text up in its
\* shard yields a Word with V = 1, NV = 0, exactly the creator's Definition, and an
\* Example and a Citation collection that each hold exactly one placeholder record
\* (empty identifying fields, V = 1, NV = 0).
C1_AddWordSeedsPlaceholders ==
  AddWordSucceeded =>
    LET w == Lookup(store, Canon(last.fd.word_text))
    IN  /\ SeededWord(w)
        /\ w.examples = <<[text |-> "", reference |-> "", V |-> 1, NV |-> 0]>>
        /\ w.mentions = <<[title |-> "", hyperlink |-> <<>>, V |-> 1, NV |-> 0]>>

\* C1 as stated: ... and empty Example and Citation collections (length 0).
C1_AddWordEmptyCollections ==
  AddWordSucceeded =>
    LET w == Lookup(store, Canon(last.fd.word_text))
    IN  /\ SeededWord(w)
        /\ Len(w.examples) = 0
        /\ Len(w.mentions) = 0

\* a mixed-case text added to a shard that already held another Word
C1_Witness ==
  /\ AddWordSucceeded
  /\ last.fd.word_text = <<"R", "u", "n">>
  /\ Len(store[<<"r", "u">>]) = 2
  /\ Lookup(store, <<"r", "u", "n">>).text = <<"r", "u", "n">>

---------------------------------------------------------------------------
(* C2 *)

TextStored(db, text) == \E p \in StoredAt(db) : Canon(WordAt(db, p).text) = text

AddWordWellFormed ==
  /\ last.op = "addWord"
  /\ Len(last.fd.word_text) >= 2
  /\ Len(last.fd.def_content) >= 10
  /\ Len(last.fd.def_reference) >= 10

\* C2: in sequential use the store holds at most one Word per canonical text, and an
\* AddWord of a text already stored returns the DuplicateWord warning, adds nothing
\* and leaves every shard as it was.
C2_OneWordPerText ==
  /\ \A p, q \in StoredAt(store) :
       Canon(WordAt(store, p).text) = Canon(WordAt(store, q).text) => p = q
  /\ (AddWordWellFormed /\ TextStored(pre, Canon(last.fd.word_text))) =>
       /\ last.state = [type |-> "warning",
                        text |-> <<Canon(last.fd.word_text), " already exists.">>]
       /\ store = pre
       /\ \A i \in 1..Len(last.calls) : last.calls[i].fn # "add"

\* "RUN" refused because "run" is stored, in a shard that holds two Words
C2_Witness ==
  /\ last.op = "addWord"
  /\ last.fd.word_text = <<"R", "U", "N">>
  /\ last.state.type = "warning"
  /\ Len(store[<<"r", "u">>]) = 2
  /\ store = pre

---------------------------------------------------------------------------
(* C3 *)

AddWordCalls(text) ==
  { p \in 1..NProcs : /\ inflight[p].pc # "idle"
                      /\ inflight[p].op = "addWord"
                      /\ inflight[p].state # FormError
                      /\ Canon(inflight[p].fd.word_text) = text }

\* C3: once every concurrent AddWord of one text has returned, the store holds
\* exactly one Word of that text, exactly one of the calls succeeded, and each
\* other one returned the DuplicateWord warning.
C3_ConcurrentAddWord ==
  \A text \in { Canon(t) : t \in WordTexts } :
    LET calls == AddWordCalls(text)
    IN  (calls # {} /\ \A p \in calls : inflight[p].pc = "done") =>
          /\ Cardinality({ q \in StoredAt(store) : WordAt(store, q).text = text }) = 1
          /\ Cardinality({ p \in calls : inflight[p].state.type = "success" }) = 1
          /\ \A p \in calls :
               inflight[p].state.type # "success" =>
                 inflight[p].state = [type |-> "warning",
                                      text |-> <<text, " already exists.">>]

\* two calls with the identical text, both past their await, both returned
C3_Witness ==
  /\ inflight[1].pc = "done"
  /\ inflight[2].pc = "done"
  /\ inflight[1].fd.word_text = <<"R", "u", "n">>
  /\ inflight[2].fd.word_text = <<"R", "u", "n">>
  /\ inflight[1].state.type = "warning"
  /\ inflight[2].state.type = "success"

---------------------------------------------------------------------------
(* Report: vocabulary of its properties. *)

\* an authenticated Report whose form passed the schema
ReportRan ==
  /\ last.op = "Report"
  /\ Authenticated
  /\ Len(last.fd.word_text) >= 2

\* the shard Report reads, and where in it the Word of the text as typed lies
ReportKey == KeyOf(last.fd.word_text)
ReportIndex == IndexIn(pre, ReportKey, last.fd.word_text)

ReportIssuedUpdate == \E i \in 1..Len(last.calls) : last.calls[i].fn = "update"

\* the sub-records of a Word that element_id names, per element type
NamedBy(word, element_type, element_id) ==
  CASE element_type = "definition" ->
         { j \in 1..Len(word.definitions) : word.definitions[j].reference = element_id }
    [] element_type = "example" ->
         { j \in 1..Len(word.examples) : word.examples[j].text = element_id }
    [] element_type = "mention" ->
         { j \in 1..Len(word.mentions) : word.mentions[j].hyperlink = <<element_id>> }
    [] OTHER -> {}

---------------------------------------------------------------------------
(* C4 *)

\* C4 as stated: an authenticated Report of a Definition by its reference adds 2 to
\* that Definition's NV, changes no other score, and returns success.
C4_ReportDefinitionPenalises ==
  (/\ ReportRan
   /\ last.fd.report_element = "definition"
   /\ ReportIndex # 0
   /\ NamedBy(pre[ReportKey][ReportIndex], "definition", last.fd.element_id) # {}) =>
    LET j == Min(NamedBy(pre[ReportKey][ReportIndex], "definition", last.fd.element_id))
    IN  /\ last.state.type = "success"
        /\ store = [pre EXCEPT ![ReportKey][ReportIndex].definitions[j].NV = @ + 2]

---------------------------------------------------------------------------
(* C5 *)

\* C5: a Report by an unauthenticated caller returns Unauthorized whatever the form
\* holds, reads no shard, and leaves the store as it was.
C5_UnauthenticatedReportRejected ==
  (last.op = "Report" /\ ~Authenticated) =>
    /\ last.state = [type |-> "error",
                     text |-> <<"You have to login in order to report items.">>]
    /\ store = pre
    /\ last.calls = <<>>

\* an unauthenticated Report of a stored Word, and one with an ill-formed text
C5_Witness ==
  /\ last.op = "Report"
  /\ ~Authenticated
  /\ last.fd.report_element = "word"
  /\ last.fd.word_text = <<"r", "u", "n">>
  /\ IndexIn(pre, <<"r", "u">>, <<"r", "u", "n">>) = 2
  /\ Outcome(last.state) = "Unauthorized"

---------------------------------------------------------------------------
(* C6 *)

\* C6 as stated: an authenticated Report of a definition, example or citation whose
\* element_id names no sub-record of the Word returns ElementNotFound and changes
\* nothing.
C6_ElementNotFound ==
  (/\ ReportRan
   /\ last.fd.report_element \in {"definition", "example", "mention"}
   /\ ReportIndex # 0
   /\ NamedBy(pre[ReportKey][ReportIndex], last.fd.report_element,
              last.fd.element_id) = {}) =>
    /\ Outcome(last.state) \notin
         {"Success", "DuplicateWord", "Unauthorized", "ValidationFailed",
          "InvalidElementType", "StorageFault", "WordNotFound", "DuplicateReference"}
    /\ store = pre

---------------------------------------------------------------------------
(* C7 *)

\* the handler reached its shard: it passed its schema and, for Report, the login
ReachedShard == last.op # "none" /\ last.calls # <<>>

\* C7 as stated: whichever case a later call spells a stored Word's text in, the
\* call is routed to the shard of the canonical text and locates that Word.
C7_CaseInsensitiveRouting ==
  \A p \in StoredAt(pre) :
    (ReachedShard /\ Canon(last.fd.word_text) = WordAt(pre, p).text) =>
      /\ last.calls[1].key = p[1]
      /\ \A i \in 1..Len(last.calls) :
           last.calls[i].fn \in {"updateWhere", "get", "update"} =>
             last.calls[i].index = p[2]
      /\ last.op = "addWord" => Outcome(last.state) = "DuplicateWord"

---------------------------------------------------------------------------
(* C8 *)

\* C8: every stored Word lies in the shard whose key is the first two characters of
\* its canonical text, and every Word that was stored before the last call is still
\* in the same shard at the same position with the same text.
C8_ShardingStable ==
  /\ \A p \in StoredAt(store) : p[1] = KeyOf(Canon(WordAt(store, p).text))
  /\ \A p \in StoredAt(pre) :
       /\ p \in StoredAt(store)
       /\ WordAt(store, p).text = WordAt(pre, p).text

\* two shards hold Words, and the last call rewrote a Word that was already stored
C8_Witness ==
  /\ store[<<"r", "u">>] # <<>>
  /\ store[<<"t", "e">>] # <<>>
  /\ last.op \in {"addExample", "addMention", "addDefinition", "Report"}
  /\ store # pre
  /\ StoredAt(store) = StoredAt(pre)

---------------------------------------------------------------------------
(* C9 *)

\* C9: an authenticated Report of type word on a stored Word adds exactly 2 to that
\* Word's NV and changes nothing else in the store; it returns success and writes
\* the Word back at the position it was read from, with update.
C9_ReportWordPenalises ==
  (ReportRan /\ last.fd.report_element = "word" /\ ReportIndex # 0) =>
    /\ store = [pre EXCEPT ![ReportKey][ReportIndex].NV = @ + 2]
    /\ last.state.type = "success"
    /\ last.calls[Len(last.calls)] =
         [fn |-> "update", key |-> ReportKey, index |-> ReportIndex]

\* the second Word of a shard reported twice: its NV is 4, the first Word's still 0
C9_Witness ==
  /\ ReportRan
  /\ last.fd.report_element = "word"
  /\ ReportIndex = 2
  /\ store[ReportKey][2].NV = 4
  /\ store[ReportKey][1].NV = 0
  /\ store[ReportKey][2].V = 1

---------------------------------------------------------------------------
(* C10 *)

\* C10: an authenticated Report whose text matches no Word of its shard returns
\* WordNotFound, leaves the store as it was and issues no update.
C10_ReportWordNotFound ==
  (ReportRan /\ ReportIndex = 0) =>
    /\ last.state.type = "error"
    /\ last.state.text[1] = "Cannot find the word "
    /\ store = pre
    /\ ~ReportIssuedUpdate

\* the shard holds a Word, but not the one reported
C10_Witness ==
  /\ ReportRan
  /\ ReportIndex = 0
  /\ last.fd.report_element = "word"
  /\ pre[ReportKey] # <<>>
  /\ Outcome(last.state) = "WordNotFound"

---------------------------------------------------------------------------
(* addDefinition, addExample, addMention: vocabulary of their properties. *)

\* the shard the three handlers read, and where in it the Word of the text as typed lies
AddKey == KeyOf(last.fd.word_text)
AddIndex == IndexIn(pre, AddKey, last.fd.word_text)

AddDefinitionRan ==
  /\ last.op = "addDefinition"
  /\ Len(last.fd.word_text) >= 2
  /\ Len(last.fd.def_content) >= 10
  /\ Len(last.fd.def_reference) >= 10

AddExampleRan ==
  /\ last.op = "addExample"
  /\ Len(last.fd.word_text) >= 2
  /\ Len(last.fd.example_text) >= 10

AddMentionRan ==
  /\ last.op = "addMention"
  /\ Len(last.fd.word_text) >= 2
  /\ Len(last.fd.mention_title) >= 10
  /\ last.fd.mention_hyperlink[1] = "https://"

\* some Word of the shard has a Definition with this reference
ReferenceInShard(db, key, reference) ==
  \E i \in 1..Len(db[key]) :
    \E j \in 1..Len(db[key][i].definitions) :
      db[key][i].definitions[j].reference = reference

NewDefinition ==
  [text |-> last.fd.def_content, reference |-> last.fd.def_reference, V |-> 1, NV |-> 0]
NewExample ==
  [text |-> last.fd.example_text, reference |-> last.fd.example_reference,
   V |-> 1, NV |-> 0]
NewMention ==
  [title |-> last.fd.mention_title, hyperlink |-> last.fd.mention_hyperlink,
   V |-> 1, NV |-> 0]

---------------------------------------------------------------------------
(* C11 *)

\* C11: addDefinition returns DuplicateReference, changing nothing, exactly when
\* some Word of the target shard, the target Word or another, has a Definition with
\* the reference; otherwise the Definition is appended to the first Word whose text
\* equals word_text.
C11_DuplicateReferenceShardWide ==
  AddDefinitionRan =>
    /\ (Outcome(last.state) = "DuplicateReference"
          <=> ReferenceInShard(pre, AddKey, last.fd.def_reference))
    /\ Outcome(last.state) = "DuplicateReference" => store = pre
    /\ (Outcome(last.state) # "DuplicateReference" /\ AddIndex # 0) =>
         store = [pre EXCEPT ![AddKey][AddIndex].definitions = Append(@, NewDefinition)]

\* refused for the second Word of the shard because of the first Word's reference
C11_Witness ==
  /\ AddDefinitionRan
  /\ AddIndex = 2
  /\ Outcome(last.state) = "DuplicateReference"
  /\ \A j \in 1..Len(pre[AddKey][2].definitions) :
       pre[AddKey][2].definitions[j].reference # last.fd.def_reference

---------------------------------------------------------------------------
(* C12 *)

\* C12: when no Word of the shard has the text as typed, addDefinition with a
\* reference new to the shard, addExample and addMention change nothing and return
\* success.
C12_SilentNoOp ==
  (/\ \/ AddDefinitionRan /\ ~ReferenceInShard(pre, AddKey, last.fd.def_reference)
      \/ AddExampleRan
      \/ AddMentionRan
   /\ AddIndex = 0) =>
    /\ store = pre
    /\ last.state.type = "success"
    /\ last.calls[Len(last.calls)] = [fn |-> "updateWhere", key |-> AddKey, index |-> 0]

\* an example for "rum" when the shard holds only "run"
C12_Witness ==
  /\ AddExampleRan
  /\ last.fd.word_text = <<"r", "u", "m">>
  /\ AddIndex = 0
  /\ pre[AddKey] # <<>>
  /\ last.state.type = "success"

---------------------------------------------------------------------------
(* C13 *)

\* V and NV of the j-th record of a collection did not decrease
NotLowered(before, after) ==
  /\ Len(before) <= Len(after)
  /\ \A j \in 1..Len(before) : before[j].V <= after[j].V /\ before[j].NV <= after[j].NV

NonNegative(records) == \A j \in 1..Len(records) : records[j].V >= 0 /\ records[j].NV >= 0

\* C13: over every call, the V and NV of every stored Word and of every stored
\* sub-record do not decrease, and all of them are at least 0.
C13_ScoresMonotone ==
  /\ \A p \in StoredAt(pre) :
       /\ p \in StoredAt(store)
       /\ WordAt(pre, p).V <= WordAt(store, p).V
       /\ WordAt(pre, p).NV <= WordAt(store, p).NV
       /\ NotLowered(WordAt(pre, p).definitions, WordAt(store, p).definitions)
       /\ NotLowered(WordAt(pre, p).examples, WordAt(store, p).examples)
       /\ NotLowered(WordAt(pre, p).mentions, WordAt(store, p).mentions)
  /\ \A p \in StoredAt(store) :
       /\ WordAt(store, p).V >= 0
       /\ WordAt(store, p).NV >= 0
       /\ NonNegative(WordAt(store, p).definitions)
       /\ NonNegative(WordAt(store, p).examples)
       /\ NonNegative(WordAt(store, p).mentions)

\* a Word already reported is reported again
C13_Witness ==
  /\ last.op = "Report"
  /\ \E p \in StoredAt(pre) : WordAt(pre, p).NV = 2 /\ WordAt(store, p).NV = 4

---------------------------------------------------------------------------
(* C14 *)

\* the records of `before` are the first records of `after`, field by field
SameDefinitions(before, after) ==
  /\ Len(before) <= Len(after)
  /\ \A j \in 1..Len(before) :
       before[j].text = after[j].text /\ before[j].reference = after[j].reference

SameMentions(before, after) ==
  /\ Len(before) <= Len(after)
  /\ \A j \in 1..Len(before) :
       before[j].title = after[j].title /\ before[j].hyperlink = after[j].hyperlink

\* C14: over every call, each shard keeps its Words in place and in order, and each
\* Word keeps its definitions, examples and mentions in place and in order, with the
\* same identifying fields: nothing is deleted or reordered, counts never decrease.
C14_NothingDeletedOrReordered ==
  \A k \in DOMAIN pre :
    /\ k \in DOMAIN store
    /\ Len(pre[k]) <= Len(store[k])
    /\ \A i \in 1..Len(pre[k]) :
         /\ pre[k][i].text = store[k][i].text
         /\ SameDefinitions(pre[k][i].definitions, store[k][i].definitions)
         /\ SameDefinitions(pre[k][i].examples, store[k][i].examples)
         /\ SameMentions(pre[k][i].mentions, store[k][i].mentions)

\* a mention appended to the first of two Words, which already had a second definition
C14_Witness ==
  /\ AddMentionRan
  /\ AddIndex = 1
  /\ Len(pre[AddKey]) = 2
  /\ Len(pre[AddKey][1].definitions) = 2
  /\ Len(store[AddKey][1].mentions) = 2

---------------------------------------------------------------------------
(* C19 *)

WordFields == {"text", "definitions", "examples", "mentions", "V", "NV"}

\* C19: when a Word with the text as typed exists, a successful addDefinition,
\* addExample or addMention appends the new record, with V = 1 and NV = 0, at the end
\* of that collection of the first such Word and changes nothing else in the store;
\* the resulting Word has every field of a Word.
C19_AppendChangesOneCollection ==
  ((AddDefinitionRan \/ AddExampleRan \/ AddMentionRan)
     /\ last.state.type = "success" /\ AddIndex # 0) =>
    /\ DOMAIN store[AddKey][AddIndex] = WordFields
    /\ AddDefinitionRan =>
         store = [pre EXCEPT ![AddKey][AddIndex].definitions = Append(@, NewDefinition)]
    /\ AddExampleRan =>
         store = [pre EXCEPT ![AddKey][AddIndex].examples = Append(@, NewExample)]
    /\ AddMentionRan =>
         store = [pre EXCEPT ![AddKey][AddIndex].mentions = Append(@, NewMention)]

\* a definition appended to the second Word of a shard that was reported before
C19_Witness ==
  /\ AddDefinitionRan
  /\ last.state.type = "success"
  /\ AddIndex = 2
  /\ pre[AddKey][2].NV = 2
  /\ Len(store[AddKey][2].definitions) = 2
  /\ store[AddKey][2].definitions[2].reference = last.fd.def_reference

---------------------------------------------------------------------------
(* C20 *)

\* C20: every stored Word has at least one Definition and no two Definitions with
\* the same reference.
C20_DefinitionsDistinctByReference ==
  \A p \in StoredAt(store) :
    LET defs == WordAt(store, p).definitions
    IN  /\ defs # <<>>
        /\ \A i, j \in 1..Len(defs) : defs[i].reference = defs[j].reference => i = j

\* a Word with two definitions, and a third one from a used reference just refused
C20_Witness ==
  /\ AddDefinitionRan
  /\ AddIndex # 0
  /\ Len(store[AddKey][AddIndex].definitions) = 2
  /\ Outcome(last.state) = "DuplicateReference"
  /\ \E j \in 1..2 : store[AddKey][AddIndex].definitions[j].reference = last.fd.def_reference

---------------------------------------------------------------------------
(* C15 *)

Failed == last.op # "none" /\ last.state.type # "success"

---------------------------------------------------------------------------
(* C16 *)

\* C16: every handler call returns a State whose message type is success, warning
\* or error; no failure leaves a handler as an exception.
C16_FailuresAreReturned ==
  last.op # "none" =>
    /\ last.state.type \in {"success", "warning", "error"}
    /\ Outcome(last.state) # "None"

\* a ReferenceError of reportElement, and a storage fault of add, both returned
C16_Witness ==
  /\ last.state = [type |-> "error", text |-> <<"Something went wrong!">>]
  /\ \/ /\ last.op = "Report"
        /\ last.fd.report_element = "example"
        /\ Len(last.calls) = 3
        /\ last.calls[3].index # 0
     \/ /\ last.op = "addWord"
        /\ last.calls[Len(last.calls)].fn = "add"

---------------------------------------------------------------------------
(* C17 *)

ElementTypes == {"word", "definition", "example", "mention"}

ReportLookedUp == \E i \in 1..Len(last.calls) : last.calls[i].fn = "getIndexOf"

\* the login check, then the schema: both before any shard is read
ReportGate ==
  /\ ~Authenticated =>
       Outcome(last.state) = "Unauthorized" /\ last.calls = <<>>
  /\ (Authenticated /\ Len(last.fd.word_text) < 2) =>
       Outcome(last.state) = "ValidationFailed" /\ last.calls = <<>>

\* update is issued last, and only when every check passed
ReportPersistsLast ==
  ReportIssuedUpdate =>
    /\ ReportRan
    /\ ReportIndex # 0
    /\ last.fd.report_element \in ElementTypes
    /\ last.calls[Len(last.calls)].fn = "update"
    /\ \A i \in 1..(Len(last.calls) - 1) : last.calls[i].fn # "update"

\* C17 as amended: Report checks the login, then the schema, then looks the Word up,
\* then checks the element type, then penalises and persists; the first failing
\* check decides the outcome.  An unauthenticated call with an ill-formed form ends
\* Unauthorized; an invalid element type is rejected only after the lookup, so it
\* yields WordNotFound on a missing Word and InvalidElementType on a stored one;
\* update is issued only after every earlier check passed.
C17_ReportOrderLookupBeforeEnum ==
  last.op = "Report" =>
    /\ ReportGate
    /\ (ReportRan /\ ReportIndex = 0) => Outcome(last.state) = "WordNotFound"
    /\ (ReportRan /\ ReportIndex # 0 /\ last.fd.report_element \notin ElementTypes) =>
         Outcome(last.state) = "InvalidElementType" /\ ReportLookedUp
    /\ ReportPersistsLast

\* C17 as stated: ... the element type is checked with the schema, before the Word
\* is looked up, so an invalid element type never yields WordNotFound.
C17_ReportOrderEnumBeforeLookup ==
  last.op = "Report" =>
    /\ ReportGate
    /\ (ReportRan /\ last.fd.report_element \notin ElementTypes) =>
         Outcome(last.state) = "InvalidElementType" /\ ~ReportLookedUp
    /\ (ReportRan /\ last.fd.report_element \in ElementTypes /\ ReportIndex = 0) =>
         Outcome(last.state) = "WordNotFound"
    /\ ReportPersistsLast

\* an invalid element type reported for a Word the shard does not hold
C17_Witness ==
  /\ ReportRan
  /\ last.fd.report_element = "bogus"
  /\ ReportIndex = 0
  /\ pre[ReportKey] # <<>>
  /\ Outcome(last.state) = "WordNotFound"

---------------------------------------------------------------------------
(* C18 *)

\* the requests of handler `op` on the Word `text` that returned success
Succeeded(op, text) ==
  { p \in 1..NProcs : /\ inflight[p].pc = "done"
                      /\ inflight[p].op = op
                      /\ inflight[p].fd.word_text = text
                      /\ inflight[p].state.type = "success" }

\* the stored Word of this text, NoWord if none
RaceWord(text) ==
  LET sf == get(store, sliceShardKey(text))
  IN  getWhere(sf, { w \in Words(sf) : w.text = text })

WordBeforeRace(text) ==
  LET sf == get(RaceSeededStore, sliceShardKey(text))
  IN  getWhere(sf, { w \in Words(sf) : w.text = text })

\* every successful Report's +2 is on the Word
PenaltiesKept(text) ==
  RaceWord(text).NV = WordBeforeRace(text).NV + 2 * Cardinality(Succeeded("Report", text))

\* every successful addDefinition's Definition is on the Word
DefinitionsKept(text) ==
  \A p \in Succeeded("addDefinition", text) :
    \E i \in 1..Len(RaceWord(text).definitions) :
      RaceWord(text).definitions[i] =
        [text |-> inflight[p].fd.def_content,
         reference |-> inflight[p].fd.def_reference, V |-> 1, NV |-> 0]

\* a Report and an addDefinition on the Word both returned success, and one ran
\* its shard step while the other was in flight
Raced(text) ==
  \E p \in Succeeded("Report", text), q \in Succeeded("addDefinition", text) :
    q \in inflight[p].met \/ p \in inflight[q].met

=============================================================================
